---- MODULE Spec2Model ----
(***************************************************************************)
(* A model of the comment tree of DouyinScraper/CommentTree.py: Node       *)
(* (parent link, ordered children, cached indexFromParent), CommentTree    *)
(* (root, uuidDict, uuidStrDict), the structural mutations, sort,          *)
(* find_nodes and the CSV export / import.                                 *)
(*                                                                         *)
(* Node objects are the integers 0..MaxNodes; 0 is the root of the tree.   *)
(* Python's None is NoNode for a node reference and NoIndex for a cached   *)
(* index.  A Python exception is recorded in lastOp.res.                   *)
(***************************************************************************)
EXTENDS Integers, Sequences, FiniteSets, TLC

\* Number of Node objects besides the root.
MaxNodes == 3

\* Longest index path handed to find_node_by_index / add_node.
MaxPath == 2

\* Number of calls made on one tree.
MaxOps == 4

Root == 0

NoNode == -1

NoIndex == -2

RemovedIndex == -1

Nodes == 1..MaxNodes

AllNodes == 0..MaxNodes

VARIABLES data, parent, children, indexFromParent, uuidDict, uuidStrDict,
          lastOp, found, dupWarnings, imported, ops, fetch

vars == <<data, parent, children, indexFromParent, uuidDict, uuidStrDict,
          lastOp, found, dupWarnings, imported, ops, fetch>>

\* No request is being fetched.
NoFetch == [stack |-> <<>>, gets |-> 0, raised |-> ""]

Range(s) == {s[i] : i \in DOMAIN s}

RECURSIVE Reverse(_)
Reverse(s) == IF s = <<>> THEN <<>> ELSE Append(Reverse(Tail(s)), Head(s))

-----------------------------------------------------------------------------
(* Data and UserData: the fields the tree's operations read.               *)

\* Data.__init__ with UserData.__init__: the content of a Node() made
\* without a value (the root).
EmptyData ==
    [cText |-> "", cUserLink |-> "", cLikes |-> 0, uLink |-> "", uFollowers |-> -1]

\* Data.deepSetAll(text, userLink, likes, ..., followers, ...): the profile
\* link is set from the comment's user link.
DeepSetAll(text, userLink, likes, followers) ==
    [cText |-> text, cUserLink |-> userLink, cLikes |-> likes,
     uLink |-> userLink, uFollowers |-> followers]

\* Data.setAll(text, userLink, likes, userData) with a UserData whose link
\* and follower count were set by UserData.setAll.
SetAll(text, userLink, likes, uLink, followers) ==
    [cText |-> text, cUserLink |-> userLink, cLikes |-> likes,
     uLink |-> uLink, uFollowers |-> followers]

\* UserData.__eq__: every base variable.
UserDataEq(d1, d2) == d1.uLink = d2.uLink /\ d1.uFollowers = d2.uFollowers

\* Data.__eq__
DataEq(d1, d2) ==
    /\ d1.cText = d2.cText
    /\ d1.cUserLink = d2.cUserLink
    /\ d1.cLikes = d2.cLikes
    /\ UserDataEq(d1, d2)

\* Whether a Data holds a UserData: Data.setUserData(None) leaves it with
\* none, and then it has no profile fields.
HasUserData(d) == "uLink" \in DOMAIN d

\* Data.setAll(text, userLink, likes, userData): userData is None, or a
\* UserData() with the values of UserData.__init__.
SetAllData(text, userLink, likes, userData) ==
    IF userData = "None"
    THEN [cText |-> text, cUserLink |-> userLink, cLikes |-> likes]
    ELSE SetAll(text, userLink, likes, "", -1)

\* How Data.deepGetAll ends: self.userData.getAll() on None raises
\* AttributeError.
DeepGetAllResult(d) == IF HasUserData(d) THEN "ok" ELSE "AttributeError"

-----------------------------------------------------------------------------
(* Node                                                                    *)

\* Node.unique: the UUID given at construction.
Unique(n) == 10 + n

UUIDs == {Unique(n) : n \in AllNodes}

\* uuid.UUID.hex
Hex(u) == ToString(u)

\* uuid.UUID(hex=...)
FromHex(h) == CHOOSE u \in UUIDs : Hex(u) = h

\* Node.uniqueStr
UniqueStr(n) == Hex(Unique(n))

\* The Node objects as one value: S.parent, S.children, S.indexFromParent, S.data.
Cur == [parent |-> parent, children |-> children,
        indexFromParent |-> indexFromParent, data |-> data]

\* Node.__eq__ between node a of S1 and node b of S2.
RECURSIVE NodeEqT(_, _, _, _)
NodeEqT(S1, a, S2, b) ==
    /\ DataEq(S1.data[a], S2.data[b])
    /\ S1.indexFromParent[a] = S2.indexFromParent[b]
    /\ Len(S1.children[a]) = Len(S2.children[b])
    /\ \A i \in 1..Len(S1.children[a]) :
          NodeEqT(S1, S1.children[a][i], S2, S2.children[b][i])

\* list.index(x): the 0-based position of the first item that is x or
\* equals x (Node.__eq__); NoIndex stands for ValueError.
ListIndex(S, s, x) ==
    LET hits == {i \in 1..Len(s) : s[i] = x \/ NodeEqT(S, s[i], S, x)}
    IN IF hits = {} THEN NoIndex
       ELSE (CHOOSE i \in hits : \A j \in hits : i <= j) - 1

\* The list s without the item at 0-based position i.
DelAt(s, i) == SubSeq(s, 1, i) \o SubSeq(s, i + 2, Len(s))

\* Node.add_child
AddChild(S, p, child) ==
    LET S1 == [S EXCEPT !.children[p] = Append(@, child), !.parent[child] = p]
    IN [S1 EXCEPT !.indexFromParent[child] = ListIndex(S1, S1.children[p], child)]

\* Node.remove_child: list.remove drops the first item equal to child.
\* [ok |-> FALSE] stands for ValueError, raised before anything changed.
RemoveChild(S, p, child) ==
    LET i == ListIndex(S, S.children[p], child)
    IN IF i = NoIndex THEN [ok |-> FALSE, S |-> S]
       ELSE [ok |-> TRUE,
             S |-> [S EXCEPT !.children[p] = DelAt(@, i), !.parent[child] = NoNode]]

\* Node.replace_child
ReplaceChild(S, p, oldChild, newChild) ==
    LET i == ListIndex(S, S.children[p], oldChild)
    IN IF i = NoIndex THEN [ok |-> FALSE, S |-> S]
       ELSE LET S1 == [S EXCEPT !.children[p][i + 1] = newChild,
                                !.parent[newChild] = p]
            IN [ok |-> TRUE,
                S |-> [S1 EXCEPT !.indexFromParent[newChild] =
                                    ListIndex(S1, S1.children[p], newChild)]]

\* Node.remove_children(children): remove_child then index -1, one by one.
\* The loop stops at the first ValueError.
RECURSIVE RemoveChildren(_, _, _)
RemoveChildren(S, p, cs) ==
    IF cs = <<>> THEN [ok |-> TRUE, S |-> S]
    ELSE LET r == RemoveChild(S, p, Head(cs))
         IN IF ~r.ok THEN r
            ELSE RemoveChildren(
                    [r.S EXCEPT !.indexFromParent[Head(cs)] = RemovedIndex],
                    p, Tail(cs))

\* Node.__iter__ / Node.flatten: the subtree in depth-first pre-order.
RECURSIVE Flatten(_, _)
RECURSIVE FlattenAll(_, _)
Flatten(ch, n) == <<n>> \o FlattenAll(ch, ch[n])
FlattenAll(ch, s) ==
    IF s = <<>> THEN <<>> ELSE Flatten(ch, Head(s)) \o FlattenAll(ch, Tail(s))

\* The nodes reachable from the nodes of set through children lists.
RECURSIVE ReachFrom(_, _)
ReachFrom(ch, set) ==
    LET next == set \cup UNION {Range(ch[x]) : x \in set}
    IN IF next = set THEN set ELSE ReachFrom(ch, next)

Reachable == ReachFrom(children, {Root})

\* A node that is in no children list.
IsDetached(n) == \A p \in AllNodes : n \notin Range(children[p])

-----------------------------------------------------------------------------
(* Comparators and sorting                                                 *)

\* get_operator: the operator module's function for a code string.
OpApply(code, a, b) ==
    CASE code = "==" -> a = b
      [] code = "!=" -> a # b
      [] code = "<"  -> a < b
      [] code = "<=" -> a <= b
      [] code = ">"  -> a > b
      [] code = ">=" -> a >= b

\* parseOpFunc(code) with cast_type: try_cast(a, b) = opF(type(b)(a), b).
\* The values compared here are integers and the targets are integers, so
\* the cast returns its argument.
ParseOpFunc(code, a, b) == OpApply(code, a, b)

\* The three-way function of an Op.InOperator comparator (as cCmpFunc of the
\* module's own tests, here on the plain order of the integers).
ThreeWay(a, b) == IF a < b THEN -1 ELSE IF a = b THEN 0 ELSE 1

\* Node.sort._pyCmpFromCmp(cmp2)(a, b).  cmp None is "<".  For a code string
\* preCMP3 is the wrapper made by parseOpFunc, which is none of opp.eq,
\* opp.ne, opp.lt, opp.le, opp.gt, opp.ge, so it is returned as it is and
\* its boolean result is the comparator's integer: True is 1, False is 0.
PyCmpFromCmp(cmp, a, b) ==
    IF cmp = "inop" THEN ThreeWay(a, b)
    ELSE LET code == IF cmp = "default" THEN "<" ELSE cmp
         IN IF ParseOpFunc(code, a, b) THEN 1 ELSE 0

\* functools.cmp_to_key: K(a) < K(b) iff mycmp(a, b) < 0.
KeyLess(cmp, a, b) == PyCmpFromCmp(cmp, a, b) < 0

\* list.sort on a short list: each item is inserted, from the left, before
\* the first item already placed that it is less than (stable).
RECURSIVE InsertInto(_, _, _, _)
InsertInto(t, x, key, cmp) ==
    IF t = <<>> THEN <<x>>
    ELSE IF KeyLess(cmp, key[x], key[Head(t)]) THEN <<x>> \o t
    ELSE <<Head(t)>> \o InsertInto(Tail(t), x, key, cmp)

RECURSIVE StableSort(_, _, _)
StableSort(s, key, cmp) ==
    IF s = <<>> THEN <<>>
    ELSE InsertInto(StableSort(SubSeq(s, 1, Len(s) - 1), key, cmp),
                    s[Len(s)], key, cmp)

\* sorted(s, key=cmp_to_key(...), reverse=reverse): a reverse sort reverses
\* the list, sorts it forward, and reverses the result.
PySorted(s, key, cmp, reverse) ==
    IF reverse THEN Reverse(StableSort(Reverse(s), key, cmp))
    ELSE StableSort(s, key, cmp)

\* A sort that leaves the cached indices as they are.
ReindexNone(ix, ch, ns) == ix

\* The second loop of Node.sort: for each node of ns, in order, every child
\* gets its position as cached index.
RECURSIVE Reindex(_, _, _)
Reindex(ix, ch, ns) ==
    IF ns = <<>> THEN ix
    ELSE LET n == Head(ns)
             ix1 == [c \in DOMAIN ix |->
                       IF c \in Range(ch[n])
                       THEN (CHOOSE i \in 1..Len(ch[n]) :
                                ch[n][i] = c /\ \A j \in 1..Len(ch[n]) :
                                                 ch[n][j] = c => j <= i) - 1
                       ELSE ix[c]]
         IN Reindex(ix1, ch, Tail(ns))

\* Node.sort(variable, reverse, key, cmp) on the Node objects S, from node n,
\* with key[x] the value of the sort variable of node x.
SortNodes(S, n, key, cmp, reverse) ==
    LET sub == Range(Flatten(S.children, n))
        ch1 == [x \in DOMAIN S.children |->
                  IF x \in sub THEN PySorted(S.children[x], key, cmp, reverse)
                  ELSE S.children[x]]
    IN [S EXCEPT !.children = ch1,
                 !.indexFromParent = Reindex(S.indexFromParent, ch1, Flatten(ch1, n))]

-----------------------------------------------------------------------------
(* CommentTree                                                             *)

\* dict[k] = v
Put(d, k, v) == [x \in DOMAIN d \cup {k} |-> IF x = k THEN v ELSE d[x]]

\* del dict[k], for a key that is present
Del(d, k) == [x \in DOMAIN d \ {k} |-> d[x]]

NoImport == [ok |-> FALSE]

\* No criteria search has been made.
NoFind == [done |-> FALSE]

\* The last call made on the tree: its name, its node arguments, how it
\* ended, and for a sort the comparator and the reverse flag.
Op(name, a, b, res) ==
    [op |-> name, a |-> a, b |-> b, res |-> res, cmp |-> "", reverse |-> FALSE]

\* CommentTree.find_node_by_index: walk children[index]; an index out of
\* range ends the walk at the last node resolved.
RECURSIVE FindNodeByIndex(_, _, _)
FindNodeByIndex(ch, ref, path) ==
    IF path = <<>> THEN ref
    ELSE IF Head(path) < Len(ch[ref])
         THEN FindNodeByIndex(ch, ch[ref][Head(path) + 1], Tail(path))
         ELSE ref

Paths == UNION {[1..k -> 0..(MaxNodes - 1)] : k \in 0..MaxPath}

\* A caller attaches a node that is in no children list, under a node that
\* is not in the node's own subtree.
CanAttach(node, p) ==
    /\ node \in Nodes
    /\ IsDetached(node)
    /\ p \notin ReachFrom(children, {node})

\* The outcome of CommentTree.add_node_parent(node, p).
AddNodeParentOutcome(node, p) ==
    [S |-> AddChild(Cur, p, node),
     ud |-> Put(uuidDict, Unique(node), node),
     usd |-> Put(uuidStrDict, UniqueStr(node), node),
     res |-> "ok"]

\* The outcome of CommentTree.remove_node(node): the statements run in
\* order and an exception leaves what ran before it.
RemoveNodeOutcome(node) ==
    IF parent[node] = NoNode
    THEN [S |-> Cur, ud |-> uuidDict, usd |-> uuidStrDict, res |-> "AttributeError"]
    ELSE LET r == RemoveChild(Cur, parent[node], node)
         IN IF ~r.ok
            THEN [S |-> Cur, ud |-> uuidDict, usd |-> uuidStrDict, res |-> "ValueError"]
            ELSE IF Unique(node) \notin DOMAIN uuidDict
            THEN [S |-> r.S, ud |-> uuidDict, usd |-> uuidStrDict, res |-> "KeyError"]
            ELSE IF UniqueStr(node) \notin DOMAIN uuidStrDict
            THEN [S |-> r.S, ud |-> Del(uuidDict, Unique(node)),
                  usd |-> uuidStrDict, res |-> "KeyError"]
            ELSE [S |-> r.S, ud |-> Del(uuidDict, Unique(node)),
                  usd |-> Del(uuidStrDict, UniqueStr(node)), res |-> "ok"]

\* The outcome of CommentTree.replace_node(oldNode, newNode).
ReplaceNodeOutcome(oldNode, newNode) ==
    IF parent[oldNode] = NoNode
    THEN [S |-> Cur, ud |-> uuidDict, usd |-> uuidStrDict, res |-> "AttributeError"]
    ELSE LET r == ReplaceChild(Cur, parent[oldNode], oldNode, newNode)
         IN IF ~r.ok
            THEN [S |-> Cur, ud |-> uuidDict, usd |-> uuidStrDict, res |-> "ValueError"]
            ELSE IF Unique(oldNode) \notin DOMAIN uuidDict
            THEN [S |-> r.S, ud |-> uuidDict, usd |-> uuidStrDict, res |-> "KeyError"]
            ELSE IF UniqueStr(oldNode) \notin DOMAIN uuidStrDict
            THEN [S |-> r.S, ud |-> Del(uuidDict, Unique(oldNode)),
                  usd |-> uuidStrDict, res |-> "KeyError"]
            ELSE [S |-> r.S,
                  ud |-> Put(Del(uuidDict, Unique(oldNode)), Unique(newNode), newNode),
                  usd |-> Put(Del(uuidStrDict, UniqueStr(oldNode)),
                              UniqueStr(newNode), newNode),
                  res |-> "ok"]

\* The state after a mutation with outcome o, recorded as the call op.
ApplyOp(o, op) ==
    /\ ops < MaxOps
    /\ ops' = ops + 1
    /\ parent' = o.S.parent
    /\ children' = o.S.children
    /\ indexFromParent' = o.S.indexFromParent
    /\ uuidDict' = o.ud
    /\ uuidStrDict' = o.usd
    /\ lastOp' = op
    /\ imported' = NoImport
    /\ UNCHANGED <<fetch, data, found, dupWarnings>>

\* The state after a mutation with outcome o, called as name(a, b).
Apply(o, name, a, b) == ApplyOp(o, Op(name, a, b, o.res))


\* A lookup that misses and forgets every entry but the root's.
RaiseAfterClear(name, a, b, res) ==
    /\ ops < MaxOps
    /\ ops' = ops + 1
    /\ lastOp' = Op(name, a, b, res)
    /\ imported' = NoImport
    /\ uuidDict' = [u \in {Unique(Root)} |-> Root]
    /\ uuidStrDict' = [h \in {UniqueStr(Root)} |-> Root]
    /\ UNCHANGED <<fetch, data, parent, children, indexFromParent, found, dupWarnings>>

\* A call that raised before it changed anything.
Raise(name, a, b, res) ==
    /\ ops < MaxOps
    /\ ops' = ops + 1
    /\ lastOp' = Op(name, a, b, res)
    /\ imported' = NoImport
    /\ UNCHANGED <<fetch, data, parent, children, indexFromParent, uuidDict,
                   uuidStrDict, found, dupWarnings>>

\* Node.add_child on nodes that are not in the tree: how a caller builds a
\* node with children of its own before it attaches it.
NodeAddChild ==
    \E p \in Nodes, c \in Nodes :
       /\ p \notin Reachable
       /\ CanAttach(c, p)
       /\ Apply([S |-> AddChild(Cur, p, c), ud |-> uuidDict,
                 usd |-> uuidStrDict, res |-> "ok"], "add_child", c, p)

\* Node.remove_children() on a node that is not in the tree.
NodeRemoveChildren ==
    \E p \in Nodes :
       /\ p \notin Reachable
       /\ children[p] # <<>>
       /\ LET r == RemoveChildren(Cur, p, children[p])
          IN Apply([S |-> r.S, ud |-> uuidDict, usd |-> uuidStrDict,
                    res |-> IF r.ok THEN "ok" ELSE "ValueError"],
                   "remove_children", p, NoNode)

AddNodeParent ==
    \E node \in Nodes, p \in Reachable :
       /\ CanAttach(node, p)
       /\ Apply(AddNodeParentOutcome(node, p), "add_node_parent", node, p)

AddTopNode ==
    \E node \in Nodes :
       /\ CanAttach(node, Root)
       /\ Apply(AddNodeParentOutcome(node, Root), "add_node_parent", node, Root)

AddNode ==
    \E node \in Nodes, path \in Paths :
       LET refNode == FindNodeByIndex(children, Root, path)
       IN /\ CanAttach(node, refNode)
          /\ Apply(AddNodeParentOutcome(node, refNode), "add_node_parent", node, refNode)

RemoveNode ==
    \E node \in AllNodes :
       /\ ops < MaxOps
       /\ Apply(RemoveNodeOutcome(node), "remove_node", node, NoNode)

RemoveNodeById ==
    \E u \in UUIDs :
       IF u \in DOMAIN uuidDict
       THEN Apply(RemoveNodeOutcome(uuidDict[u]), "remove_node",
                  uuidDict[u], NoNode)
       ELSE Raise("remove_node", NoNode, NoNode, "KeyError")

RemoveNodeByStr ==
    \E u \in UUIDs :
       IF Hex(u) \in DOMAIN uuidStrDict
       THEN Apply(RemoveNodeOutcome(uuidStrDict[Hex(u)]), "remove_node",
                  uuidStrDict[Hex(u)], NoNode)
       ELSE Raise("remove_node", NoNode, NoNode, "KeyError")

RemoveNodeByIndex ==
    \E path \in Paths :
       /\ ops < MaxOps
       /\ LET refNode == FindNodeByIndex(children, Root, path)
          IN Apply(RemoveNodeOutcome(refNode), "remove_node", refNode, NoNode)

\* A caller replaces a node by a node that is in no children list and does
\* not hold the place of the replacement in its own subtree.
CanReplace(oldNode, newNode) ==
    /\ newNode \in Nodes
    /\ newNode # oldNode
    /\ IsDetached(newNode)
    /\ parent[oldNode] # NoNode => parent[oldNode] \notin ReachFrom(children, {newNode})

ReplaceNode ==
    \E oldNode \in AllNodes, newNode \in Nodes :
       /\ CanReplace(oldNode, newNode)
       /\ Apply(ReplaceNodeOutcome(oldNode, newNode), "replace_node", oldNode, newNode)

ReplaceNodeById ==
    \E u \in UUIDs, newNode \in Nodes :
       IF u \in DOMAIN uuidDict
       THEN /\ CanReplace(uuidDict[u], newNode)
            /\ Apply(ReplaceNodeOutcome(uuidDict[u], newNode), "replace_node",
                     uuidDict[u], newNode)
       ELSE Raise("replace_node", NoNode, newNode, "KeyError")

ReplaceNodeByStr ==
    \E u \in UUIDs, newNode \in Nodes :
       IF Hex(u) \in DOMAIN uuidStrDict
       THEN /\ CanReplace(uuidStrDict[Hex(u)], newNode)
            /\ Apply(ReplaceNodeOutcome(uuidStrDict[Hex(u)], newNode),
                     "replace_node", uuidStrDict[Hex(u)], newNode)
       ELSE Raise("replace_node", NoNode, newNode, "KeyError")

ReplaceNodeByIndex ==
    \E path \in Paths, newNode \in Nodes :
       LET refNode == FindNodeByIndex(children, Root, path)
       IN /\ CanReplace(refNode, newNode)
          /\ Apply(ReplaceNodeOutcome(refNode, newNode), "replace_node",
                   refNode, newNode)

\* The comparators a caller passes to sort: None, a code string, or an
\* Op.InOperator.
SortCmps == {"default", "<", "inop"}

\* The sort variable's value of every node (variable cLikes, default key).
LikesKey == [n \in AllNodes |-> data[n].cLikes]

\* CommentTree.sort / Node.sort on a node of the tree.
Sort ==
    \E n \in Reachable, cmp \in SortCmps, reverse \in BOOLEAN :
       /\ ops < MaxOps
       /\ ApplyOp([S |-> SortNodes(Cur, n, LikesKey, cmp, reverse),
                   ud |-> uuidDict, usd |-> uuidStrDict, res |-> "ok"],
                  [Op("sort", n, NoNode, "ok") EXCEPT !.cmp = cmp, !.reverse = reverse])

-----------------------------------------------------------------------------
(* CSV export and import                                                   *)

\* Node.__init__: an index argument that is not None is stored as 0.
NodeInitIndex(i) == IF i = NoIndex THEN NoIndex ELSE 0

\* Node.__deepcopy__ of the root: every copy is made by Node(data, parent,
\* unique, indexFromParent), so it keeps the original's data, UUID and parent
\* reference and its children are the copies of the original's children.
DeepCopy(S) ==
    [S EXCEPT !.indexFromParent = [n \in DOMAIN @ |-> NodeInitIndex(@[n])]]

\* "%s" % i, and int(s), for the integers a CSV cell holds.
CellInts == -2..50
Str(i) == ToString(i)
ParseInt(s) == CHOOSE i \in CellInts : Str(i) = s

\* The tree toCSV walks: CommentTree.iterSort(key=getIndexFromParent), which
\* sorts a copy by the cached index with the default comparator.
IterSortByIndex(S) ==
    LET C == DeepCopy(S)
    IN SortNodes(C, Root, C.indexFromParent, "default", FALSE)

\* The row toCSV writes for node n of the sorted copy C (the text cells are
\* written as they are; they hold no delimiter).
CsvRow(C, n) ==
    [uuid |-> UniqueStr(n),
     parentUuid |-> UniqueStr(C.parent[n]),
     index |-> Str(C.indexFromParent[n]),
     cText |-> C.data[n].cText,
     cUserLink |-> C.data[n].cUserLink,
     cLikes |-> Str(C.data[n].cLikes),
     uLink |-> C.data[n].uLink,
     uFollowers |-> Str(C.data[n].uFollowers)]

\* CommentTree.toCSV: the root's row, then one row per node of the sorted
\* copy in depth-first pre-order.
ToCSV(S) ==
    LET C == IterSortByIndex(S)
        order == Tail(Flatten(C.children, Root))
    IN <<[uuid |-> UniqueStr(Root)]>> \o
       [i \in 1..Len(order) |-> CsvRow(C, order[i])]

\* The UUID that uuid.uuid4() draws for the k-th Node object fromCSV makes
\* (from 0): a fresh one, none of those read from the file.
Uuid4(k) == 100 + k

\* The Node objects fromCSV makes are named by the UUID they are given with
\* setUniqueID, which sets unique and leaves uniqueStr as Node.__init__ made
\* it, the hex form of the UUID drawn there.  set_root and add_node_parent
\* write the maps from getUniqueID() and getUniqueStr().
EmptyImport(rootId) ==
    [ok |-> TRUE,
     made |-> {rootId},
     uniqueStr |-> [u \in {rootId} |-> Hex(Uuid4(0))],
     uuidDict |-> [u \in {rootId} |-> rootId],
     uuidStrDict |-> [h \in {Hex(Uuid4(0))} |-> rootId],
     S |-> [parent |-> [u \in UUIDs |-> NoNode],
            children |-> [u \in UUIDs |-> <<>>],
            indexFromParent |-> [u \in UUIDs |-> IF u = rootId THEN 0 ELSE NoIndex],
            data |-> [u \in UUIDs |-> EmptyData]]]

\* The loop of CommentTree.fromCSV over the rows after the root's: a node is
\* made, filled by deepSetAll from the cells read (the uLink cell is not
\* read), attached under nodes[parentID] and given the index read.
\* ok = FALSE stands for the KeyError of a parent not made yet.
RECURSIVE ImportRows(_, _, _)
ImportRows(I, rows, k) ==
    IF k > Len(rows) \/ ~I.ok THEN I
    ELSE LET row == rows[k]
             nodeID == FromHex(row.uuid)
             parentID == FromHex(row.parentUuid)
             S1 == [I.S EXCEPT !.data[nodeID] =
                       DeepSetAll(row.cText, row.cUserLink, ParseInt(row.cLikes),
                                  ParseInt(row.uFollowers))]
         IN IF parentID \notin I.made
            THEN [I EXCEPT !.ok = FALSE]
            ELSE ImportRows(
                    [I EXCEPT !.made = @ \cup {nodeID},
                              !.uniqueStr = Put(@, nodeID, Hex(Uuid4(Cardinality(I.made)))),
                              !.uuidDict = Put(@, nodeID, nodeID),
                              !.uuidStrDict = Put(@, Hex(Uuid4(Cardinality(I.made))), nodeID),
                              !.S = [AddChild(S1, parentID, nodeID)
                                       EXCEPT !.indexFromParent[nodeID] = ParseInt(row.index)]],
                    rows, k + 1)

\* CommentTree.fromCSV(rows): the first row is the root's.
FromCSV(rows) ==
    ImportRows(EmptyImport(FromHex(Head(rows).uuid)), Tail(rows), 1)

\* toCSV needs the parent reference of every node it writes and an integer
\* index to sort by, and writes a node once for each children list that
\* holds it.
CanExport ==
    LET order == Flatten(children, Root)
    IN /\ \A n \in Range(order) \ {Root} : parent[n] # NoNode
       /\ \A n \in Range(order) : indexFromParent[n] # NoIndex
       /\ \A i, j \in 1..Len(order) : order[i] = order[j] => i = j

\* tree.toCSV(path) followed by CommentTree.fromCSV(path).
RoundTrip ==
    /\ ops < MaxOps
    /\ ops' = ops + 1
    /\ CanExport
    /\ imported' = [ok |-> TRUE, tree |-> FromCSV(ToCSV(Cur))]
    /\ lastOp' = Op("toCSV_fromCSV", Root, NoNode, "ok")
    /\ UNCHANGED <<fetch, data, parent, children, indexFromParent, uuidDict,
                   uuidStrDict, found, dupWarnings>>

-----------------------------------------------------------------------------
(* The tree under structural mutation                                      *)

\* The comment data a caller wraps into Node objects: the three comments of
\* the sorting example, the last with a profile link of its own.
DataVals ==
    << DeepSetAll("a", "l1", 5, -1),
       DeepSetAll("b", "l1", 50, -1),
       SetAll("c", "l1", 1, "l2", -1) >>

\* Which comment each Node object holds.  The objects are interchangeable,
\* so the choices are taken up to renaming of the objects.
DataChoices ==
    {f \in [Nodes -> DOMAIN DataVals] : \A m, n \in Nodes : m < n => f[m] <= f[n]}

\* CommentTree.__init__, and MaxNodes Node(value) objects not yet attached.
Init ==
    /\ \E f \in DataChoices :
          data = [n \in AllNodes |-> IF n = Root THEN EmptyData ELSE DataVals[f[n]]]
    /\ parent = [n \in AllNodes |-> NoNode]
    /\ children = [n \in AllNodes |-> <<>>]
    /\ indexFromParent = [n \in AllNodes |-> IF n = Root THEN 0 ELSE NoIndex]
    /\ uuidDict = [u \in {Unique(Root)} |-> Root]
    /\ uuidStrDict = [h \in {UniqueStr(Root)} |-> Root]
    /\ lastOp = Op("init", NoNode, NoNode, "ok")
    /\ found = NoFind
    /\ dupWarnings = 0
    /\ fetch = NoFetch
    /\ imported = NoImport
    /\ ops = 0

Next ==
    \/ NodeAddChild
    \/ NodeRemoveChildren
    \/ AddNodeParent
    \/ AddTopNode
    \/ AddNode
    \/ RemoveNode
    \/ RemoveNodeById
    \/ RemoveNodeByStr
    \/ RemoveNodeByIndex
    \/ ReplaceNode
    \/ ReplaceNodeById
    \/ ReplaceNodeByStr
    \/ ReplaceNodeByIndex
    \/ Sort
    \/ RoundTrip

Spec == Init /\ [][Next]_vars

-----------------------------------------------------------------------------
(* Properties of the tree under structural mutation                        *)

\* The position (from 0) of n in list s, by identity.
PositionOf(s, n) == (CHOOSE i \in DOMAIN s : s[i] = n) - 1

\* The cached index of n names n's own slot in the children list of p.
IndexNames(p, n) ==
    /\ indexFromParent[n] + 1 \in DOMAIN children[p]
    /\ children[p][indexFromParent[n] + 1] = n

\* C1: the nodes reachable from the root are exactly the nodes uuidDict
\* holds and exactly the nodes uuidStrDict holds, each under its own key,
\* after any sequence of additions, removals and replacements.
RegistryMatchesTree ==
    /\ Reachable = Range(uuidDict)
    /\ Reachable = Range(uuidStrDict)
    /\ \A n \in Reachable :
          /\ Unique(n) \in DOMAIN uuidDict /\ uuidDict[Unique(n)] = n
          /\ UniqueStr(n) \in DOMAIN uuidStrDict /\ uuidStrDict[UniqueStr(n)] = n

\* C2: every node that has a parent has a cached index equal to its
\* position in that parent's children list, so the siblings that followed
\* a removed child are re-indexed.
IndexIsPosition ==
    \A p \in Reachable : \A i \in DOMAIN children[p] :
       parent[children[p][i]] = p => indexFromParent[children[p][i]] = i - 1

\* C3: right after add_child / add_node_parent of n under p, n.parent is p
\* and p.children[n.indexFromParent] is n itself.
AddChildIndexesItself ==
    (lastOp.op \in {"add_child", "add_node_parent"} /\ lastOp.res = "ok")
       => /\ parent[lastOp.a] = lastOp.b
          /\ IndexNames(lastOp.b, lastOp.a)

\* C4: after sort on cLikes with reverse=False and the default comparator
\* or the code "<", the children are in non-decreasing order of likes and
\* each cached index is the child's new position.
SortAscendingByLikes ==
    (lastOp.op = "sort" /\ lastOp.cmp \in {"default", "<"} /\ ~lastOp.reverse)
       => LET ch == children[lastOp.a]
          IN /\ \A i, j \in DOMAIN ch :
                   i < j => data[ch[i]].cLikes <= data[ch[j]].cLikes
             /\ \A i \in DOMAIN ch : indexFromParent[ch[i]] = i - 1

\* C5: the tree read back from the CSV written for a tree equals that tree
\* under CommentTree.__eq__: same data, same cached index and same children
\* at every node.
CsvRoundTripEqual ==
    imported.ok =>
       /\ imported.tree.ok
       /\ NodeEqT(Cur, Root, imported.tree.S, Unique(Root))

\* C10: remove_node(n), for n in its parent's children list and in both
\* maps, takes exactly n out of that list, sets n.parent to None, deletes
\* n's two map entries and changes no other parent, list or map entry.
RemoveNodeExact ==
    [][\A n \in Nodes :
          (/\ lastOp'.op = "remove_node" /\ lastOp'.a = n
           /\ parent[n] # NoNode
           /\ n \in Range(children[parent[n]])
           /\ Unique(n) \in DOMAIN uuidDict
           /\ UniqueStr(n) \in DOMAIN uuidStrDict)
          => /\ children' = [children EXCEPT ![parent[n]] =
                                DelAt(@, PositionOf(@, n))]
             /\ parent' = [parent EXCEPT ![n] = NoNode]
             /\ uuidDict' = Del(uuidDict, Unique(n))
             /\ uuidStrDict' = Del(uuidStrDict, UniqueStr(n))]_vars

-----------------------------------------------------------------------------
(* Criteria search: Node.find_nodes with variables and data                *)

MaxQueries == 2
MaxPairs == 2

\* find_nodes turns count=None into -1, and -1 into the size of the subtree.
CountNone == -1

\* The operator inputs of a search: the six code strings, a string that is
\* no code, and two raw callables, "lambda a: True" and
\* "lambda a, b, c=0: a == b".
CodeStrings == {"==", "!=", "<", "<=", ">", ">="}
Callable1 == "lambda a"
Callable3 == "lambda a, b, c=0"
Callables == {Callable1, Callable3}

\* get_operator(op_input) for a string: a string outside the mapping raises
\* ValueError; the functions of the mapping take two parameters.
GetOperatorResult(op) == IF op \in CodeStrings THEN "ok" ELSE "ValueError"

\* parseOpFunc(op_input): a string goes through get_operator; a callable is
\* wrapped as it is, its parameters are not counted.
ParseOpFuncResult(op) == IF op \in Callables THEN "ok" ELSE GetOperatorResult(op)

\* The fields of a comment that hold text; the others hold integers.
TextFields == {"cText", "cUserLink", "uLink"}

\* int(a) for a text a: the integer it spells, if it spells one.
IsNumeral(a) == \E i \in CellInts : Str(i) = a

\* try_cast(a, b) of wrap_operator, for the field var with value a and an
\* integer target b: how the call ends.  type(b)(a) is int(a), which raises
\* ValueError for a text that spells no integer; the handler catches
\* TypeError only.  A callable of one parameter raises TypeError when it is
\* called with two; the handler warns and calls it again with (a, b), which
\* raises TypeError out of the handler.
TryCastResult(op, var, a, b) ==
    IF var \in TextFields /\ ~IsNumeral(a) THEN "ValueError"
    ELSE IF op = Callable1 THEN "TypeError"
    ELSE "ok"

\* The warnings try_cast emits in that call.
TryCastWarns(op, var, a, b) ==
    IF var \in TextFields /\ ~IsNumeral(a) THEN 0
    ELSE IF op = Callable1 THEN 1
    ELSE 0

\* The value try_cast(a, b) returns when it returns: opF(int(a), b).
TryCast(op, var, a, b) ==
    LET v == IF var \in TextFields THEN ParseInt(a) ELSE a
    IN IF op = Callable3 THEN v = b ELSE OpApply(op, v, b)

\* A search that takes a node when any one pair of the query-set matches.
QueryHitAny(d, qvars, qdata, opCode) ==
    \E j \in DOMAIN qvars \cap DOMAIN qdata :
       ParseOpFunc(opCode, d[qvars[j]], qdata[j])

\* all(opFF(dataDict[k.value], expected) for k, expected in
\*     zip(vars2[i], data2[i])): d is the node's data, whose field k is
\* dataDict[k].
QueryHit(d, qvars, qdata, opCode) ==
    \A j \in DOMAIN qvars \cap DOMAIN qdata :
       TryCast(opCode, qvars[j], d[qvars[j]], qdata[j])

\* The pair at which all(...) stops without a value: the first pair whose
\* call raises, every pair before it being true; 0 if there is none.
RECURSIVE RaisingPair(_, _, _, _, _)
RaisingPair(d, qvars, qdata, opCode, j) ==
    IF j \notin DOMAIN qvars \cap DOMAIN qdata THEN 0
    ELSE IF TryCastResult(opCode, qvars[j], d[qvars[j]], qdata[j]) # "ok" THEN j
    ELSE IF ~TryCast(opCode, qvars[j], d[qvars[j]], qdata[j]) THEN 0
    ELSE RaisingPair(d, qvars, qdata, opCode, j + 1)

\* The exception all(...) raises for a query-set, "" if it raises none.
QueryError(d, qvars, qdata, opCode) ==
    LET j == RaisingPair(d, qvars, qdata, opCode, 1)
    IN IF j = 0 THEN "" ELSE TryCastResult(opCode, qvars[j], d[qvars[j]], qdata[j])

\* The warnings emitted while it does.
QueryWarns(d, qvars, qdata, opCode) ==
    LET j == RaisingPair(d, qvars, qdata, opCode, 1)
    IN IF j = 0 THEN 0 ELSE TryCastWarns(opCode, qvars[j], d[qvars[j]], qdata[j])

\* A search that appends an empty list at every node it looks at.
FreshListsAlways(lists, iterated2) == Append(lists, <<>>)

\* "if not iterated2: innerCurrList.append([])"
FreshLists(lists, iterated2) ==
    IF iterated2 THEN lists ELSE Append(lists, <<>>)

\* A search without the added flag: the node goes into the list of every
\* query-set it satisfies.
DataSearchTurnNoFlag(st, node, i, hit) ==
    LET ls == FreshLists(st.lists, st.iterated)
    IN IF ~hit THEN [st EXCEPT !.lists = ls]
       ELSE [st EXCEPT !.lists = [ls EXCEPT ![i] = Append(@, node)],
                       !.added = TRUE]

\* One turn of the loop of _dataSearch, for query-set i: hit says whether
\* the node satisfies it.
DataSearchTurn(st, node, i, hit) ==
    LET ls == FreshLists(st.lists, st.iterated)
    IN IF ~hit THEN [st EXCEPT !.lists = ls]
       ELSE IF ~st.added
            THEN [st EXCEPT !.lists = [ls EXCEPT ![i] = Append(@, node)],
                            !.added = TRUE]
            ELSE [st EXCEPT !.lists = ls, !.warns = @ + 1]

RECURSIVE DataSearchLoop(_, _, _, _, _)
DataSearchLoop(st, node, d, q, i) ==
    IF i > Len(q.vars) \/ st.err # "" THEN st
    ELSE IF DeepGetAllResult(d) # "ok"
    THEN [st EXCEPT !.lists = FreshLists(st.lists, st.iterated),
                    !.err = DeepGetAllResult(d)]
    ELSE IF QueryError(d, q.vars[i], q.data[i], q.op) # ""
    THEN [st EXCEPT !.lists = FreshLists(st.lists, st.iterated),
                    !.err = QueryError(d, q.vars[i], q.data[i], q.op),
                    !.castWarns = @ + QueryWarns(d, q.vars[i], q.data[i], q.op)]
    ELSE DataSearchLoop(
            DataSearchTurn(st, node, i, QueryHit(d, q.vars[i], q.data[i], q.op)),
            node, d, q, i + 1)

\* _dataSearch(node2, vars2, data2, innerCurrList, iterated2): added starts
\* False and iterated2 is True on return.  evals counts the nodes the
\* predicate has been called on.
DataSearch(st, node, d, q) ==
    [DataSearchLoop([st EXCEPT !.added = FALSE, !.evals = @ + 1], node, d, q, 1)
        EXCEPT !.iterated = TRUE]

\* _recursiveVarSearch(node, rVars, rData, rCount, currList, iterated, opF).
\* rCount is a local of each call: a child's call gets the caller's value
\* and the caller's value is not changed by it.
RECURSIVE RecursiveVarSearch(_, _, _, _, _)
RECURSIVE SearchChildren(_, _, _, _, _)
RecursiveVarSearch(S, node, q, rCount, st) ==
    IF rCount = 0 \/ st.err # "" THEN st
    ELSE LET r == DataSearch(st, node, S.data[node], q)
             rc == IF r.added THEN rCount - 1 ELSE rCount
         IN IF S.children[node] = <<>> \/ r.err # "" THEN r
            ELSE SearchChildren(S, S.children[node], q, rc, r)

\* "for child in node.children: currList = _recursiveVarSearch(child, ...);
\*  if rCount == 0: return currList"
SearchChildren(S, chs, q, rCount, st) ==
    IF chs = <<>> \/ st.err # "" THEN st
    ELSE LET s1 == RecursiveVarSearch(S, Head(chs), q, rCount, st)
         IN IF rCount = 0 THEN s1
            ELSE SearchChildren(S, Tail(chs), q, rCount, s1)

\* Node.find_nodes(count, variables, data, operatorCode=q.op) on node self,
\* with variables and data given as lists of lists of the same shape.
NodeFindNodes(S, self, count, q) ==
    LET size == Len(Flatten(S.children, self))
    IN IF count = 0
       THEN [lists |-> <<>>, warns |-> 0, err |-> "", evals |-> 0, castWarns |-> 0]
       ELSE IF ParseOpFuncResult(q.op) # "ok"
       THEN [lists |-> <<>>, warns |-> 0, err |-> ParseOpFuncResult(q.op),
             evals |-> 0, castWarns |-> 0]
       ELSE LET c1 == IF count = CountNone THEN size ELSE count
                c2 == IF c1 > size THEN size ELSE c1
                r == RecursiveVarSearch(S, self, q, c2,
                        [lists |-> <<>>, iterated |-> FALSE,
                         added |-> FALSE, warns |-> 0, err |-> "",
                         evals |-> 0, castWarns |-> 0])
            IN [lists |-> IF r.err = "" THEN r.lists ELSE <<>>,
                warns |-> r.warns, err |-> r.err, evals |-> r.evals,
                castWarns |-> r.castWarns]

\* The inputs of the searches: variables, expected values, operator codes
\* and caps.
VarNames == <<"cLikes", "uFollowers">>
QueryVals == {5}
QueryOps == {"==", "<"}
Counts == {CountNone, 0, 1, 2, MaxNodes + 2}

Pairs == [v : DOMAIN VarNames, val : QueryVals]

\* A query-set names each variable at most once.
QuerySets ==
    {s \in UNION {[1..k -> Pairs] : k \in 1..MaxPairs} :
        \A i, j \in DOMAIN s : i < j => s[i].v < s[j].v}

Queries ==
    {[vars |-> [i \in DOMAIN qs |-> [j \in DOMAIN qs[i] |-> VarNames[qs[i][j].v]]],
      data |-> [i \in DOMAIN qs |-> [j \in DOMAIN qs[i] |-> qs[i][j].val]],
      op |-> o] :
        qs \in UNION {[1..n -> QuerySets] : n \in 1..MaxQueries}, o \in QueryOps}

\* CommentTree.find_nodes(count, variables, data, operatorCode): the search
\* of the root node.
FindNodes ==
    \E count \in Counts, q \in Queries :
       /\ ~found.done
       /\ LET r == NodeFindNodes(Cur, Root, count, q)
          IN /\ found' = [done |-> TRUE, count |-> count, vars |-> q.vars,
                          data |-> q.data, op |-> q.op, out |-> r.lists]
             /\ dupWarnings' = r.warns
       /\ lastOp' = Op("find_nodes", Root, NoNode, "ok")
       /\ UNCHANGED <<fetch, data, parent, children, indexFromParent, uuidDict,
                      uuidStrDict, imported, ops>>

\* The comments of the searched trees.
FindDataVals ==
    << DeepSetAll("a", "l1", 1, 5), DeepSetAll("b", "l1", 5, 5) >>

\* Node n is added under a node made before it.
TreeShapes == {f \in [Nodes -> AllNodes] : \A n \in Nodes : f[n] < n}

\* The tree after add_node_parent(n, f[n]) for n = 1, 2, ..., k.
RECURSIVE BuiltTree(_, _, _)
BuiltTree(S, f, k) ==
    IF k = 0 THEN S ELSE AddChild(BuiltTree(S, f, k - 1), f[k], k)

InitFind ==
    /\ \E f \in TreeShapes, g \in [Nodes -> DOMAIN FindDataVals] :
          LET S0 == [parent |-> [n \in AllNodes |-> NoNode],
                     children |-> [n \in AllNodes |-> <<>>],
                     indexFromParent |-> [n \in AllNodes |->
                                             IF n = Root THEN 0 ELSE NoIndex],
                     data |-> [n \in AllNodes |->
                                  IF n = Root THEN EmptyData ELSE FindDataVals[g[n]]]]
              S == BuiltTree(S0, f, MaxNodes)
          IN /\ data = S.data
             /\ parent = S.parent
             /\ children = S.children
             /\ indexFromParent = S.indexFromParent
    /\ uuidDict = [u \in UUIDs |-> CHOOSE n \in AllNodes : Unique(n) = u]
    /\ uuidStrDict = [h \in {UniqueStr(n) : n \in AllNodes} |->
                         CHOOSE n \in AllNodes : UniqueStr(n) = h]
    /\ lastOp = Op("add_node_parent", MaxNodes, NoNode, "ok")
    /\ found = NoFind
    /\ dupWarnings = 0
    /\ fetch = NoFetch
    /\ imported = NoImport
    /\ ops = MaxNodes

NextFind == FindNodes

SpecFind == InitFind /\ [][NextFind]_vars

-----------------------------------------------------------------------------
(* Properties of the criteria search                                       *)

\* Node n satisfies every (variable, value) pair of query-set i of the
\* search made, under the search's operator.
Satisfies(n, i) ==
    \A j \in DOMAIN found.vars[i] :
       OpApply(found.op, data[n][found.vars[i][j]], found.data[i][j])

\* The query-sets of the search made that node n satisfies.
HitsOf(n) == {i \in DOMAIN found.vars : Satisfies(n, i)}

\* The nodes the search returned, in any list.
Recorded == UNION {Range(found.out[i]) : i \in DOMAIN found.out}

\* The place of node n in the depth-first pre-order walk from the root.
DfsPlace(n) ==
    LET order == Flatten(children, Root)
    IN CHOOSE k \in DOMAIN order : order[k] = n

RECURSIVE SumLen(_)
SumLen(ls) == IF ls = <<>> THEN 0 ELSE Len(Head(ls)) + SumLen(Tail(ls))

RECURSIVE ExtraHits(_)
ExtraHits(set) ==
    IF set = {} THEN 0
    ELSE LET n == CHOOSE x \in set : TRUE
         IN (Cardinality(HitsOf(n)) - 1) + ExtraHits(set \ {n})

\* C6: every node in the i-th returned list satisfies all the pairs of the
\* i-th query-set, and a node that fails at least one pair of every
\* query-set is in no returned list.
CriteriaAllPairs ==
    found.done =>
       /\ \A i \in DOMAIN found.out : \A n \in Range(found.out[i]) :
             i \in DOMAIN found.vars /\ Satisfies(n, i)
       /\ \A n \in AllNodes : HitsOf(n) = {} => n \notin Recorded

\* C6 happens: a two-pair query-set returned a node while another node that
\* matches one of its pairs but not the other is returned nowhere.
CriteriaAllPairsWitness ==
    /\ found.done
    /\ \E i \in DOMAIN found.out :
          /\ Len(found.vars[i]) = 2
          /\ found.out[i] # <<>>
          /\ \E n \in Nodes :
                /\ HitsOf(n) = {}
                /\ n \notin Recorded
                /\ \E j \in DOMAIN found.vars[i] :
                      OpApply(found.op, data[n][found.vars[i][j]], found.data[i][j])

CapBoundsTotal ==
    (found.done /\ found.count >= 1) => SumLen(found.out) <= found.count

\* C9: no node is in two returned lists nor twice in one, and a node that
\* satisfies several query-sets is recorded under the first of them only.
RecordedOnceUnderFirstHit ==
    found.done =>
       /\ \A i, j \in DOMAIN found.out :
             \A a \in DOMAIN found.out[i], b \in DOMAIN found.out[j] :
                found.out[i][a] = found.out[j][b] => (i = j /\ a = b)
       /\ \A i \in DOMAIN found.out : \A n \in Range(found.out[i]) :
             \A j \in HitsOf(n) : i <= j

\* C9 happens: a returned node satisfies two query-sets of the search.
RecordedOnceWitness ==
    /\ found.done
    /\ \E n \in Recorded : Cardinality(HitsOf(n)) >= 2

-----------------------------------------------------------------------------
(* Properties of replacement and of failing calls                          *)

\* C11: replace_node(old, new), for old in its parent's children list and in
\* both maps, puts new at exactly the position old had (no other position
\* and no length changed), sets new.parent to that parent and new's cached
\* index to that position, deletes old's map entries and inserts new's.
ReplaceNodeInPlace ==
    [][\A old \in AllNodes, new \in Nodes :
          (/\ lastOp'.op = "replace_node" /\ lastOp'.a = old /\ lastOp'.b = new
           /\ parent[old] # NoNode
           /\ old \in Range(children[parent[old]])
           /\ Unique(old) \in DOMAIN uuidDict
           /\ UniqueStr(old) \in DOMAIN uuidStrDict)
          => LET p == parent[old]
                 k == PositionOf(children[p], old)
             IN /\ children' = [children EXCEPT ![p][k + 1] = new]
                /\ parent'[new] = p
                /\ indexFromParent'[new] = k
                /\ uuidDict' = Put(Del(uuidDict, Unique(old)), Unique(new), new)
                /\ uuidStrDict' =
                      Put(Del(uuidStrDict, UniqueStr(old)), UniqueStr(new), new)]_vars

\* C12: a call of add_node_parent, remove_node or replace_node (or of one
\* of their variants) that raises leaves the parent links, the children
\* lists and both identity maps as they were.
MutationsAtomic ==
    [][(lastOp'.op \in {"add_node_parent", "remove_node", "replace_node"}
        /\ lastOp'.res # "ok")
       => UNCHANGED <<parent, children, uuidDict, uuidStrDict>>]_vars

\* C13: remove_node_by_id, remove_node_by_str, replace_node_by_id and
\* replace_node_by_str with an identifier that is no key of the map raise
\* KeyError and leave the structure, the cached indices and both maps as
\* they were.
MissingKeyChangesNothing ==
    [][(lastOp'.op \in {"remove_node", "replace_node"} /\ lastOp'.a = NoNode)
       => /\ lastOp'.res = "KeyError"
          /\ UNCHANGED <<parent, children, indexFromParent, uuidDict, uuidStrDict>>]_vars

\* C13 happens: a removal or replacement by an identifier that is no key has
\* just raised, in a tree that holds nodes.
MissingKeyWitness ==
    /\ lastOp.op \in {"remove_node", "replace_node"}
    /\ lastOp.a = NoNode
    /\ lastOp.res = "KeyError"
    /\ children[Root] # <<>>

-----------------------------------------------------------------------------
(* Search without criteria and search by index paths: Node.find_nodes      *)

\* The count find_nodes works with: None is the size of the subtree, and a
\* count above the size is the size.  (count = 0 has returned [] before.)
EffectiveCount(S, self, count) ==
    LET size == Len(Flatten(S.children, self))
        c1 == IF count = CountNone THEN size ELSE count
    IN IF c1 > size THEN size ELSE c1

\* An item of a Python list that holds nodes and lists.
NodeItem(n) == [node |-> n]
ListItem(l) == [list |-> l]

\* recursiveAll(node, currList): "return [currList]" wraps the list built so
\* far in a new one-item list, and the caller goes on with that new list.
RECURSIVE RecursiveAll(_, _, _, _)
RECURSIVE RecursiveAllChildren(_, _, _, _)
RecursiveAll(S, node, currList, count) ==
    IF Len(currList) = count THEN currList
    ELSE <<ListItem(RecursiveAllChildren(S, S.children[node],
                                         Append(currList, NodeItem(node)), count))>>

RecursiveAllChildren(S, chs, currList, count) ==
    IF chs = <<>> THEN currList
    ELSE RecursiveAllChildren(S, Tail(chs),
                              RecursiveAll(S, Head(chs), currList, count), count)

\* Node.find_nodes(count) with no variables, no data and no indexLists.
NodeFindAll(S, self, count) ==
    IF count = 0 THEN <<>>
    ELSE RecursiveAll(S, self, <<>>, EffectiveCount(S, self, count))

\* recursiveFlatten: the nodes of a nested list, left to right.
RECURSIVE RecursiveFlatten(_)
RecursiveFlatten(l) ==
    IF l = <<>> THEN <<>>
    ELSE (IF "node" \in DOMAIN Head(l) THEN <<Head(l).node>>
          ELSE RecursiveFlatten(Head(l).list)) \o RecursiveFlatten(Tail(l))

\* "refNode = refNode.get_children()[index]" for each index of the path, up
\* to the first IndexError.  A negative index counts from the end.
RECURSIVE WalkIndexList(_, _, _)
WalkIndexList(ch, refNode, sublist) ==
    IF sublist = <<>> THEN refNode
    ELSE LET index == Head(sublist)
             n == Len(ch[refNode])
         IN IF index >= 0 /\ index < n
            THEN WalkIndexList(ch, ch[refNode][index + 1], Tail(sublist))
            ELSE IF index < 0 /\ -index <= n
            THEN WalkIndexList(ch, ch[refNode][n + index + 1], Tail(sublist))
            ELSE refNode

\* Node.find_nodes(count, indexLists=lists) with a list of lists of
\* integers and no variables and no data.
NodeFindByIndex(S, self, count, lists) ==
    IF count = 0 THEN <<>>
    ELSE [i \in DOMAIN lists |-> WalkIndexList(S.children, self, lists[i])]

IndexVals == (0 - 1)..1
IndexPaths == UNION {[1..k -> IndexVals] : k \in 0..MaxPath}
IndexLists == UNION {[1..n -> IndexPaths] : n \in 1..MaxQueries}

\* node.find_nodes(count)
FindAll ==
    \E self \in AllNodes, count \in Counts :
       /\ found = NoFind
       /\ found' = [done |-> FALSE, kind |-> "all", self |-> self,
                    count |-> count, out |-> NodeFindAll(Cur, self, count)]
       /\ lastOp' = Op("find_nodes", self, NoNode, "ok")
       /\ UNCHANGED <<fetch, data, parent, children, indexFromParent, uuidDict,
                      uuidStrDict, imported, ops, dupWarnings>>

\* node.find_nodes(count, indexLists=lists)
FindByIndex ==
    \E self \in AllNodes, count \in Counts, lists \in IndexLists :
       /\ found = NoFind
       /\ found' = [done |-> FALSE, kind |-> "index", self |-> self,
                    count |-> count, lists |-> lists,
                    out |-> NodeFindByIndex(Cur, self, count, lists)]
       /\ lastOp' = Op("find_nodes", self, NoNode, "ok")
       /\ UNCHANGED <<fetch, data, parent, children, indexFromParent, uuidDict,
                      uuidStrDict, imported, ops, dupWarnings>>

NextDirect == FindAll \/ FindByIndex

SpecDirect == InitFind /\ [][NextDirect]_vars

\* The first k items of sequence s (all of them when it has fewer).
FirstOf(s, k) == SubSeq(s, 1, IF k < Len(s) THEN k ELSE Len(s))

\* C14: find_nodes with a cap k and no criteria returns exactly
\* min(k, subtree size) nodes, the first ones of the searched subtree in
\* depth-first pre-order.
NoCriteriaFirstK ==
    ("kind" \in DOMAIN found /\ found.kind = "all" /\ found.count >= 0)
       => RecursiveFlatten(found.out) =
             FirstOf(Flatten(children, found.self), found.count)

\* C15: find_nodes with index paths only returns one node per path, in path
\* order, whatever the cap: the node reached by walking children[index]
\* from the searched node, or the last node resolved before an index that
\* is out of range.
OneNodePerPath ==
    ("kind" \in DOMAIN found /\ found.kind = "index")
       => /\ Len(found.out) = Len(found.lists)
          /\ \A i \in DOMAIN found.lists :
                found.out[i] = WalkIndexList(children, found.self, found.lists[i])

-----------------------------------------------------------------------------
(* Sorting with a comparator code, and the sorts that copy                 *)

\* What _pyCmpFromCmp holds in preCMP3: for a code string the try_cast
\* closure made by parseOpFunc, for an InOperator a local function.  Neither
\* is one of the functions of the operator module.
PreCmp3(cmp) == IF cmp = "inop" THEN "preCMP3" ELSE "try_cast"

\* How _pyCmpFromCmp ends: it raises only when preCMP3 is identical to
\* operator.eq or operator.ne.
PyCmpFromCmpResult(cmp) ==
    IF PreCmp3(cmp) \in {"operator.eq", "operator.ne"} THEN "ValueError" ELSE "ok"

\* The comparators given to the sorts: the codes, and a three-way InOperator.
CmpCodes == {"==", "!=", "<", ">", "inop"}

\* The sort key of every node of S: the default key (the value of cLikes),
\* or key=Node.getIndexFromParent as toCSV passes it.
KeyOf(S, key) ==
    IF key = "index" THEN S.indexFromParent
    ELSE [n \in AllNodes |-> S.data[n].cLikes]

\* CommentTree.sort(cLikes, reverse, key, cmp).
SortOutcome(S, key, cmp, reverse) ==
    IF PyCmpFromCmpResult(cmp) # "ok" THEN [S |-> S, res |-> PyCmpFromCmpResult(cmp)]
    ELSE [S |-> SortNodes(S, Root, KeyOf(S, key), cmp, reverse), res |-> "ok"]

\* A node handed out by an iterator: which comment it is, whether the object
\* is one made by __deepcopy__, and the cached index it carries.
Yielded(S, n, copy) ==
    [node |-> n, copy |-> copy, index |-> S.indexFromParent[n]]

\* A sort of the tree itself whose iterator hands out the tree's own nodes.
IterSortInPlace(S, key, cmp, reverse) ==
    LET o == SortOutcome(S, key, cmp, reverse)
        order == Flatten(o.S.children, Root)
    IN [S |-> o.S, res |-> o.res,
        out |-> [i \in 1..Len(order) |-> Yielded(o.S, order[i], FALSE)]]

\* CommentTree.iterSort: tempTree = self.__copy__(); tempTree.sort(...);
\* tempTree.__iter__().  S is left as it is; the nodes come from tempTree.
IterSortOutcome(S, key, cmp, reverse) ==
    LET o == SortOutcome(DeepCopy(S), key, cmp, reverse)
        order == IF o.res = "ok" THEN Flatten(o.S.children, Root) ELSE <<>>
    IN [S |-> S, res |-> o.res,
        out |-> [i \in 1..Len(order) |-> Yielded(o.S, order[i], TRUE)]]

\* CommentTree.iterPostSort: sorted(self.flatten()[1:], ...), the nodes of
\* the tree itself in one sorted list.
IterPostSortOutcome(S, key, cmp, reverse) ==
    LET order == IF PyCmpFromCmpResult(cmp) = "ok"
                 THEN PySorted(Tail(Flatten(S.children, Root)), KeyOf(S, key),
                               cmp, reverse)
                 ELSE <<>>
    IN [S |-> S, res |-> PyCmpFromCmpResult(cmp),
        out |-> [i \in 1..Len(order) |-> Yielded(S, order[i], FALSE)]]

\* The state after a call with outcome o, with what the caller holds of it:
\* the children lists before the call, those after a first sort, and the
\* nodes or rows handed back, and the cached indices before the call.
Hand(o, kind, cmp, reverse, mid, out) ==
    /\ ops' = ops + 1
    /\ parent' = o.S.parent
    /\ children' = o.S.children
    /\ indexFromParent' = o.S.indexFromParent
    /\ lastOp' = [Op(kind, Root, NoNode, o.res) EXCEPT !.cmp = cmp, !.reverse = reverse]
    /\ found' = [done |-> FALSE, kind |-> kind, before |-> children,
                 indexBefore |-> indexFromParent, mid |-> mid, out |-> out]
    /\ imported' = NoImport
    /\ UNCHANGED <<fetch, data, uuidDict, uuidStrDict, dupWarnings>>

\* tree.sort(DTyp.cLikes, reverse, cmp=cmp)
SortCode ==
    \E cmp \in CmpCodes, reverse \in BOOLEAN :
       /\ ops < MaxOps
       /\ Hand(SortOutcome(Cur, "cLikes", cmp, reverse), "sort", cmp, reverse, children, <<>>)

\* tree.iterSort(DTyp.cLikes, reverse, cmp=cmp)
IterSort ==
    \E cmp \in CmpCodes, reverse \in BOOLEAN :
       LET o == IterSortOutcome(Cur, "cLikes", cmp, reverse)
       IN /\ ops < MaxOps
          /\ Hand(o, "iterSort", cmp, reverse, children, o.out)

\* tree.iterPostSort(DTyp.cLikes, reverse, cmp=cmp)
IterPostSort ==
    \E cmp \in CmpCodes, reverse \in BOOLEAN :
       LET o == IterPostSortOutcome(Cur, "cLikes", cmp, reverse)
       IN /\ ops < MaxOps
          /\ Hand(o, "iterPostSort", cmp, reverse, children, o.out)

\* tree.sort(DTyp.cLikes, cmp=cmp) followed by
\* tree.sort(DTyp.cLikes, reverse=True, cmp=cmp).
SortAscDesc ==
    \E cmp \in CmpCodes :
       LET asc == SortOutcome(Cur, "cLikes", cmp, FALSE)
           desc == SortOutcome(asc.S, "cLikes", cmp, TRUE)
       IN /\ ops < MaxOps
          /\ Hand(desc, "sort_asc_desc", cmp, TRUE, asc.S.children, <<>>)

\* tree.toCSV(path): the rows written, from the iterator of iterSort.
ExportCSV ==
    /\ ops < MaxOps
    /\ CanExport
    /\ LET o == IterSortOutcome(Cur, "index", "default", FALSE)
       IN Hand(o, "toCSV", "default", FALSE, children, ToCSV(Cur))

\* A tree built by add_node_parent calls from comments taken from vals, after
\* which MaxOps - n more calls are made.
InitBuilt(vals, n) ==
    /\ \E f \in TreeShapes, g \in [Nodes -> DOMAIN vals] :
          LET S0 == [parent |-> [x \in AllNodes |-> NoNode],
                     children |-> [x \in AllNodes |-> <<>>],
                     indexFromParent |-> [x \in AllNodes |->
                                             IF x = Root THEN 0 ELSE NoIndex],
                     data |-> [x \in AllNodes |->
                                  IF x = Root THEN EmptyData ELSE vals[g[x]]]]
              S == BuiltTree(S0, f, MaxNodes)
          IN /\ data = S.data
             /\ parent = S.parent
             /\ children = S.children
             /\ indexFromParent = S.indexFromParent
    /\ uuidDict = [u \in UUIDs |-> CHOOSE x \in AllNodes : Unique(x) = u]
    /\ uuidStrDict = [h \in {UniqueStr(x) : x \in AllNodes} |->
                         CHOOSE x \in AllNodes : UniqueStr(x) = h]
    /\ lastOp = Op("add_node_parent", MaxNodes, NoNode, "ok")
    /\ found = NoFind
    /\ dupWarnings = 0
    /\ fetch = NoFetch
    /\ imported = NoImport
    /\ ops = n

\* The trees that are sorted: one call may come before the sort.
InitSort == InitBuilt(FindDataVals, MaxOps - 2)

NextSort ==
    RemoveNode \/ SortCode \/ IterSort \/ IterPostSort \/ SortAscDesc \/ ExportCSV

SpecSort == InitSort /\ [][NextSort]_vars

\* C16: a sort, iterSort or iterPostSort whose comparator code is "==" or
\* "!=" ends with an error, and leaves the order of the children and the
\* cached indices as they were.
EqualityCodesRejected ==
    [][(lastOp'.op \in {"sort", "iterSort", "iterPostSort"}
          /\ lastOp'.cmp \in {"==", "!="})
       => /\ lastOp'.res # "ok"
          /\ UNCHANGED <<children, indexFromParent>>]_vars

\* C17: after an ascending and then a descending sort on cLikes, two
\* siblings with different likes stand in the opposite order to the one they
\* had after the ascending sort, and two siblings with equal likes stand in
\* the same order.
AscThenDescReverses ==
    ("kind" \in DOMAIN found /\ found.kind = "sort_asc_desc") =>
       \A p \in AllNodes : \A i, j \in DOMAIN found.mid[p] :
          i < j =>
             LET x == found.mid[p][i]
                 y == found.mid[p][j]
             IN IF data[x].cLikes # data[y].cLikes
                THEN PositionOf(children[p], y) < PositionOf(children[p], x)
                ELSE PositionOf(children[p], x) < PositionOf(children[p], y)

\* C18: iterSort and toCSV leave every node's children list, cached index,
\* parent and data, and both maps, as they were; the nodes iterSort hands
\* out are copies.
IterSortLeavesTree ==
    [][(lastOp'.op \in {"iterSort", "toCSV"})
       => /\ UNCHANGED <<data, parent, children, indexFromParent, uuidDict,
                         uuidStrDict>>
          /\ lastOp'.op = "iterSort" =>
                \A i \in DOMAIN found'.out : found'.out[i].copy]_vars

\* An iterSort that handed out the nodes in another order than the tree's,
\* on a tree whose cached indices are not the positions.
IterSortWitness ==
    /\ lastOp.op = "iterSort"
    /\ found.before = children
    /\ [i \in DOMAIN found.out |-> found.out[i].node] # Flatten(children, Root)
    /\ \E n \in Range(children[Root]) :
          indexFromParent[n] # PositionOf(children[Root], n)

-----------------------------------------------------------------------------
(* Criteria search with any operator input and with text fields            *)

\* Comments whose text spells an integer, and comments whose text does not.
CastDataVals ==
    << DeepSetAll("5", "l1", 5, 5),
       DeepSetAll("a", "l1", 5, 5) >>

OpVarNames == <<"cText", "cLikes">>
OpInputs == {"==", "~", Callable1, Callable3}
OpCounts == {CountNone, 0, 1}

\* The query-sets: one or more pairs, no variable named twice.
OpQuerySets ==
    {s \in UNION {[1..k -> DOMAIN OpVarNames] : k \in 1..MaxPairs} :
        \A i, j \in DOMAIN s : i # j => s[i] # s[j]}

OpQueries ==
    {[vars |-> [i \in DOMAIN qs |-> [j \in DOMAIN qs[i] |-> OpVarNames[qs[i][j]]]],
      data |-> [i \in DOMAIN qs |-> [j \in DOMAIN qs[i] |-> 5]],
      op |-> o] :
        qs \in UNION {[1..n -> OpQuerySets] : n \in 1..MaxQueries}, o \in OpInputs}

\* node.find_nodes(count, variables, data, operatorCode) on any node of the
\* tree: what it returns, or the exception it raises.
FindWithOperator ==
    \E self \in AllNodes, count \in OpCounts, q \in OpQueries :
       /\ found = NoFind
       /\ LET r == NodeFindNodes(Cur, self, count, q)
          IN /\ found' = [done |-> FALSE, kind |-> "criteria", self |-> self,
                          count |-> count, vars |-> q.vars, data |-> q.data,
                          op |-> q.op, out |-> r.lists, err |-> r.err,
                          evals |-> r.evals, castWarns |-> r.castWarns]
             /\ dupWarnings' = r.warns
       /\ lastOp' = Op("find_nodes", self, NoNode, IF found'.err = "" THEN "ok" ELSE found'.err)
       /\ UNCHANGED <<fetch, data, parent, children, indexFromParent, uuidDict,
                      uuidStrDict, imported, ops>>

InitOp == InitBuilt(CastDataVals, MaxNodes)

NextOp == FindWithOperator

SpecOp == InitOp /\ [][NextOp]_vars

\* C19: a criteria search (with a cap other than 0) whose operator is a
\* string that is no code, or a callable that does not take exactly two
\* parameters, ends with an error, and the predicate has been called on no
\* node.
BadOperatorFailsFirst ==
    ("kind" \in DOMAIN found /\ found.kind = "criteria" /\ found.count # 0
        /\ found.op \in {"~", Callable1, Callable3})
    => /\ found.err # ""
       /\ found.evals = 0

\* C20: a criteria search with a code string does not end with an error
\* when the text of a node cannot be turned into the integer it is compared
\* with: the search goes through the nodes and hands back its lists.
CastFailureFallsBack ==
    ("kind" \in DOMAIN found /\ found.kind = "criteria"
        /\ found.op \in CodeStrings /\ found.count # 0)
    => found.err = ""

-----------------------------------------------------------------------------
(* Shallow and deep equality of two trees                                  *)

\* The fields of a comment that carry a collection timestamp of their own.
StampedFields == {"cText", "cUserLink", "cLikes"}

\* dataCollectionTime of a Data filled by one deepSetAll call at time t;
\* the root's Data was never filled and its timestamps are None (0).
FirstSet == [n \in AllNodes |-> [f \in StampedFields |-> IF n = Root THEN 0 ELSE 1]]

\* Data.setCLikes(likes) at time t on node n of a second tree B: the value
\* and the timestamp of cLikes.
SetCLikes(B, n, likes, t) ==
    [B EXCEPT !.data[n].cLikes = likes, !.times[n]["cLikes"] = t]

\* The tree itself as one value with the identifiers and the timestamps of
\* its nodes.
CurStamped ==
    [parent |-> parent, children |-> children, indexFromParent |-> indexFromParent,
     data |-> data, unique |-> [n \in AllNodes |-> Unique(n)], times |-> FirstSet]

\* A second tree made of other Node objects: built by the same calls with
\* the same identifiers ("same"), made by CommentTree.__copy__ ("copy"),
\* or built the same and then one node's likes set again to the same value
\* ("later_time") or to another value ("other_likes"), or built with one
\* node under another identifier ("other_id").
OtherKinds == {"same", "copy", "later_time", "other_likes", "other_id"}

OtherTree(kind, n) ==
    LET A == CurStamped
    IN CASE kind = "same" -> A
         [] kind = "copy" -> [A EXCEPT !.indexFromParent = DeepCopy(Cur).indexFromParent]
         [] kind = "later_time" -> SetCLikes(A, n, A.data[n].cLikes, 2)
         [] kind = "other_likes" -> SetCLikes(A, n, A.data[n].cLikes + 1, 2)
         [] kind = "other_id" -> [A EXCEPT !.unique[n] = Unique(MaxNodes + 1)]

\* Node.deepEqual between node a of S1 and node b of S2.
RECURSIVE NodeDeepEqual(_, _, _, _)
NodeDeepEqual(S1, a, S2, b) ==
    /\ DataEq(S1.data[a], S2.data[b])
    /\ S1.unique[a] = S2.unique[b]
    /\ Len(S1.children[a]) = Len(S2.children[b])
    /\ \A i \in 1..Len(S1.children[a]) :
          NodeDeepEqual(S1, S1.children[a][i], S2, S2.children[b][i])

\* tree.deepEQ(other) and tree == other, for a second tree made from this one.
Compare ==
    \E kind \in OtherKinds, n \in Nodes :
       /\ found = NoFind
       /\ LET B == OtherTree(kind, n)
          IN found' = [done |-> FALSE, kind |-> "compare", how |-> kind,
                       other |-> B,
                       deepEQ |-> NodeDeepEqual(CurStamped, Root, B, Root),
                       eq |-> NodeEqT(Cur, Root, B, Root)]
       /\ lastOp' = Op("deepEQ", Root, NoNode, "ok")
       /\ UNCHANGED <<fetch, data, parent, children, indexFromParent, uuidDict,
                      uuidStrDict, dupWarnings, imported, ops>>

NextCompare == Compare

SpecCompare == InitFind /\ [][NextCompare]_vars

\* C21: two trees that are deep-equal are equal, and agree on every
\* reachable node's identifier, cached index and timestamps.
DeepEqualIsFinest ==
    ("kind" \in DOMAIN found /\ found.kind = "compare" /\ found.deepEQ)
    => /\ found.eq
       /\ \A n \in Reachable :
             /\ found.other.unique[n] = Unique(n)
             /\ found.other.indexFromParent[n] = indexFromParent[n]
             /\ found.other.times[n] = FirstSet[n]

-----------------------------------------------------------------------------
(* Comments added by add_comment                                           *)

CommentLikes == {1, 5}
UserDataArgs == {"None", "UserData()"}

\* A Node object no call has used yet; the least of them is taken.
IsFresh(n) ==
    /\ n \in Nodes
    /\ IsDetached(n)
    /\ Unique(n) \notin DOMAIN uuidDict
    /\ children[n] = <<>>

\* CommentTree.add_comment(cText, cUserLink, cLikes, indexList, userData):
\* data = Data(); data.setAll(...); node = Node(data); then add_top_node or
\* add_node.  The text of the comment of node n is Str(n).
AddComment ==
    \E node \in Nodes, likes \in CommentLikes, userData \in UserDataArgs,
       path \in Paths :
       LET refNode == FindNodeByIndex(children, Root, path)
           S1 == [Cur EXCEPT !.data[node] = SetAllData(Str(node), "l1", likes, userData)]
           S2 == AddChild(S1, refNode, node)
       IN /\ ops < MaxOps
          /\ found = NoFind
          /\ IsFresh(node)
          /\ \A m \in Nodes : IsFresh(m) => node <= m
          /\ ops' = ops + 1
          /\ data' = S2.data
          /\ parent' = S2.parent
          /\ children' = S2.children
          /\ indexFromParent' = S2.indexFromParent
          /\ uuidDict' = Put(uuidDict, Unique(node), node)
          /\ uuidStrDict' = Put(uuidStrDict, UniqueStr(node), node)
          /\ lastOp' = Op("add_comment", node, refNode, "ok")
          /\ UNCHANGED <<fetch, found, dupWarnings, imported>>

\* tree.find_nodes(variables=[[DTyp.cLikes]], data=[[likes]]) on the tree of
\* comments.
FindComment ==
    \E likes \in CommentLikes :
       /\ found = NoFind
       /\ children[Root] # <<>>
       /\ LET q == [vars |-> << <<"cLikes">> >>, data |-> << <<likes>> >>, op |-> "=="]
              r == NodeFindNodes(Cur, Root, CountNone, q)
          IN /\ found' = [done |-> FALSE, kind |-> "comments", vars |-> q.vars,
                          data |-> q.data, out |-> r.lists, err |-> r.err]
             /\ dupWarnings' = r.warns
       /\ lastOp' = Op("find_nodes", Root, NoNode, "ok")
       /\ UNCHANGED <<fetch, data, parent, children, indexFromParent, uuidDict,
                      uuidStrDict, imported, ops>>

\* CommentTree.__init__
InitComment ==
    /\ data = [n \in AllNodes |-> EmptyData]
    /\ parent = [n \in AllNodes |-> NoNode]
    /\ children = [n \in AllNodes |-> <<>>]
    /\ indexFromParent = [n \in AllNodes |-> IF n = Root THEN 0 ELSE NoIndex]
    /\ uuidDict = [u \in {Unique(Root)} |-> Root]
    /\ uuidStrDict = [h \in {UniqueStr(Root)} |-> Root]
    /\ lastOp = Op("init", NoNode, NoNode, "ok")
    /\ found = NoFind
    /\ dupWarnings = 0
    /\ fetch = NoFetch
    /\ imported = NoImport
    /\ ops = 0

NextComment == AddComment \/ FindComment

SpecComment == InitComment /\ [][NextComment]_vars

\* C22: every comment of the tree owns a profile, with the default values
\* when add_comment was given none, and a search that reads the fields of
\* the comments ends without an error.
CommentOwnsProfile ==
    /\ \A n \in Reachable \ {Root} :
          /\ HasUserData(data[n])
          /\ DeepGetAllResult(data[n]) = "ok"
    /\ ("kind" \in DOMAIN found /\ found.kind = "comments") => found.err = ""

-----------------------------------------------------------------------------
(* FileFetcher: requests with retries, when every GET fails                *)

MaxRetries == 2
MaxDepth == 7

\* "if restart_count > 5"
RestartLimit == 5

Fetchers == {"get_with_retry", "fetch_video_stream_with_retry"}

\* One activation of get_with_retry or fetch_video_stream_with_retry: its
\* restarts argument (restart_count), the attempt of its loop, and where it
\* is: "enter", "loop", "handler" (in "except RuntimeWarning"), "tail"
\* (at "return await ..."), "while" (in "except Exception").  An activation
\* under the top of the stack awaits the one above it.
Frame(fn, restarts) == [fn |-> fn, restarts |-> restarts, attempt |-> 0, at |-> "enter"]

Top == fetch.stack[Len(fetch.stack)]

SetTop(f) == [fetch.stack EXCEPT ![Len(fetch.stack)] = f]

\* What "await docker_restart(...)" does in an activation with restart
\* count r that goes on at place next: it returns None ("none": no error in
\* the logs, or container not found), it restarts the container and awaits
\* get_with_retry(restarts=r + 1) ("restart"), or it raises, which
\* "except Exception" catches ("error").
DockerOutcomes == {"none", "restart", "error"}

AfterDockerRestart(outcome, f, next) ==
    CASE outcome = "none" -> SetTop(next)
      [] outcome = "restart" -> Append(SetTop(next), Frame("get_with_retry", f.restarts + 1))
      [] outcome = "error" -> SetTop([f EXCEPT !.at = "while"])

\* A caller awaits get_with_retry(client, url) or
\* fetch_video_stream_with_retry(client, url, params), with max_retries =
\* MaxRetries.
CallFetch ==
    \E fn \in Fetchers :
       /\ fetch = NoFetch
       /\ fetch' = [fetch EXCEPT !.stack = <<Frame(fn, 0)>>]
       /\ UNCHANGED <<data, parent, children, indexFromParent, uuidDict,
                      uuidStrDict, lastOp, found, dupWarnings, imported, ops>>

\* The test of restart_count: the RuntimeWarning raised there is caught by
\* "except Exception" of the same activation.
Enter ==
    /\ fetch.stack # <<>>
    /\ Top.at = "enter"
    /\ fetch' = [fetch EXCEPT !.stack =
                    SetTop([Top EXCEPT !.at = IF Top.restarts > RestartLimit
                                              THEN "while" ELSE "loop"])]
    /\ UNCHANGED <<data, parent, children, indexFromParent, uuidDict,
                   uuidStrDict, lastOp, found, dupWarnings, imported, ops>>

\* One turn of "for attempt in range(max_retries)": the GET ends with a
\* status other than 200 or with a request error; then the sleep, and
\* docker_restart if check_docker_logs_strict() finds an error ("quiet" if
\* it finds none).
Attempt ==
    \E outcome \in DockerOutcomes \cup {"quiet"} :
       /\ fetch.stack # <<>>
       /\ Top.at = "loop"
       /\ Top.attempt < MaxRetries
       /\ outcome = "restart" => Len(fetch.stack) < MaxDepth
       /\ LET next == [Top EXCEPT !.attempt = @ + 1]
          IN fetch' = [fetch EXCEPT
                !.gets = IF @ > MaxRetries THEN @ ELSE @ + 1,
                !.stack = IF outcome = "quiet" THEN SetTop(next)
                          ELSE AfterDockerRestart(outcome, Top, next)]
       /\ UNCHANGED <<data, parent, children, indexFromParent, uuidDict,
                      uuidStrDict, lastOp, found, dupWarnings, imported, ops>>

\* After the loop: restart_count = 0 and raise RuntimeWarning("Max retries
\* reached ..."), caught by "except RuntimeWarning" of the same activation.
Exhausted ==
    /\ fetch.stack # <<>>
    /\ Top.at = "loop"
    /\ Top.attempt = MaxRetries
    /\ fetch' = [fetch EXCEPT !.stack = SetTop([Top EXCEPT !.at = "handler", !.restarts = 0])]
    /\ UNCHANGED <<data, parent, children, indexFromParent, uuidDict,
                   uuidStrDict, lastOp, found, dupWarnings, imported, ops>>

\* "except RuntimeWarning": docker_restart, the sleep and a new client.
Handler ==
    \E outcome \in DockerOutcomes :
       /\ fetch.stack # <<>>
       /\ Top.at = "handler"
       /\ outcome = "restart" => Len(fetch.stack) < MaxDepth
       /\ fetch' = [fetch EXCEPT !.stack =
                       AfterDockerRestart(outcome, Top, [Top EXCEPT !.at = "tail"])]
       /\ UNCHANGED <<data, parent, children, indexFromParent, uuidDict,
                      uuidStrDict, lastOp, found, dupWarnings, imported, ops>>

\* "return await get_with_retry(client, ...)" of the handler, and
\* "responseOut = await get_with_retry(client, ...)" of the while loop:
\* the same function is called again with restarts = 0.
CallAgain ==
    /\ fetch.stack # <<>>
    /\ Top.at \in {"tail", "while"}
    /\ Len(fetch.stack) < MaxDepth
    /\ fetch' = [fetch EXCEPT !.stack = Append(@, Frame(Top.fn, 0))]
    /\ UNCHANGED <<data, parent, children, indexFromParent, uuidDict,
                   uuidStrDict, lastOp, found, dupWarnings, imported, ops>>

NextFetch == CallFetch \/ Enter \/ Attempt \/ Exhausted \/ Handler \/ CallAgain

SpecFetch == InitComment /\ [][NextFetch]_vars

\* C23: when every GET fails the call makes max_retries attempts and no
\* more, and once they are used up it is over: RuntimeWarning has been
\* raised to the caller.
RetriesBounded ==
    /\ fetch.gets <= MaxRetries
    /\ (fetch.stack # <<>> /\ fetch.stack[1].at \notin {"enter", "loop"})
          => fetch.raised = "RuntimeWarning"

-----------------------------------------------------------------------------
(* Removal and replacement by index path                                   *)

\* Whether every index of the path is in range, from node ref on.
RECURSIVE PathInRange(_, _, _)
PathInRange(ch, ref, path) ==
    \/ path = <<>>
    \/ /\ Head(path) < Len(ch[ref])
       /\ PathInRange(ch, ch[ref][Head(path) + 1], Tail(path))

\* The state after a call by index path with outcome o; the caller's path
\* is kept.
ApplyByIndex(o, name, refNode, newNode, path) ==
    /\ ops < MaxOps
    /\ ops' = ops + 1
    /\ parent' = o.S.parent
    /\ children' = o.S.children
    /\ indexFromParent' = o.S.indexFromParent
    /\ uuidDict' = o.ud
    /\ uuidStrDict' = o.usd
    /\ lastOp' = Op(name, refNode, newNode, o.res)
    /\ found' = [done |-> FALSE, kind |-> "by_index", path |-> path]
    /\ imported' = NoImport
    /\ UNCHANGED <<fetch, data, dupWarnings>>

\* tree.remove_node_by_index(path)
RemoveByPath ==
    \E path \in Paths :
       LET refNode == FindNodeByIndex(children, Root, path)
       IN /\ ops < MaxOps
          /\ ApplyByIndex(RemoveNodeOutcome(refNode), "remove_node_by_index",
                          refNode, NoNode, path)

\* tree.replace_node_by_index(newNode, path)
ReplaceByPath ==
    \E path \in Paths, newNode \in Nodes :
       LET refNode == FindNodeByIndex(children, Root, path)
       IN /\ CanReplace(refNode, newNode)
          /\ ApplyByIndex(ReplaceNodeOutcome(refNode, newNode),
                          "replace_node_by_index", refNode, newNode, path)

\* The trees acted on by index path: one call may come before.
InitIndex == InitBuilt(FindDataVals, MaxOps - 2)

NextIndex == RemoveNode \/ RemoveByPath \/ ReplaceByPath

SpecIndex == InitIndex /\ [][NextIndex]_vars

\* C24: a removal or replacement by an index path with an index out of
\* range removes and replaces nothing: links, cached indices and maps stay.
BadPathChangesNothing ==
    [][(lastOp'.op \in {"remove_node_by_index", "replace_node_by_index"}
          /\ ~PathInRange(children, Root, found'.path))
       => UNCHANGED <<parent, children, indexFromParent, uuidDict, uuidStrDict>>]_vars

-----------------------------------------------------------------------------
(* What a sort leaves behind                                               *)

\* How often x occurs in the list s.
Occurrences(s, x) == Cardinality({i \in DOMAIN s : s[i] = x})

\* C25: when sort returns, every child of every node of the sorted subtree
\* has its position as cached index, whatever the comparator and the
\* indices before; every children list holds the same nodes as often as
\* before, and no parent link has changed.
SortRevalidatesIndex ==
    [][lastOp'.op = "sort"
       => /\ \A p \in Range(Flatten(children', lastOp'.a)) :
                \A i \in DOMAIN children'[p] :
                   indexFromParent'[children'[p][i]] = i - 1
          /\ \A p, x \in AllNodes :
                Occurrences(children'[p], x) = Occurrences(children[p], x)
          /\ parent' = parent]_vars

\* A sort with a three-way comparator that has moved a child of the root,
\* on a tree where the cached index of a child of the root was not its
\* position before the call.
SortRevalidatesWitness ==
    /\ lastOp.op = "sort"
    /\ lastOp.cmp = "inop"
    /\ found.before[Root] # children[Root]
    /\ \E i \in DOMAIN found.before[Root] :
          found.indexBefore[found.before[Root][i]] # i - 1
    /\ \A i \in DOMAIN children[Root] : indexFromParent[children[Root][i]] = i - 1

\* ---------------------------------------------------------------------
\* Operands.py: chains of a right-associative operator
\* ---------------------------------------------------------------------

MaxOperands == 4

OperandVals == {2, 3}

\* The functions wrapped by the RAssOperator objects of a chain.
OperatorFuncs == {"expR", "subR"}

\* A plain operand, the value None, and an operator token.
Val(v) == [t |-> "val", v |-> v]

NoneVal == [t |-> "None"]

OpToken(func) == [t |-> "op", func |-> func]

\* RAssChain.__init__
RAssChain(func, left) ==
    [t |-> "chain", func |-> func, left |-> left, right |-> NoneVal,
     pending_operator |-> "None"]

IsChain(x) == x.t = "chain"

\* RAssChain.__or__ with an operand on the right.
RECURSIVE OrOperand(_, _)
OrOperand(self, other) ==
    IF self.pending_operator # "None"
    THEN [self EXCEPT !.right = OrOperand(RAssChain(self.pending_operator, self.right), other),
                      !.pending_operator = "None"]
    ELSE IF self.right.t = "None"
    THEN [self EXCEPT !.right = other]
    ELSE IF IsChain(self.right)
    THEN [self EXCEPT !.right = OrOperand(self.right, other)]
    ELSE [self EXCEPT !.right = OrOperand(RAssChain(self.func, self.right), other)]

\* RAssChain.__or__ with an RAssOperator on the right: the error it raises,
\* or "" when the operator is stored as pending.
OrOperatorError(self) ==
    IF self.right.t = "None" \/ self.pending_operator # "None"
    THEN "NotImplementedError"
    ELSE ""

\* The value func(left, right) of the wrapped function, kept as a term:
\* the function is handed its two arguments as they are.
CallFunc(func, left, right) ==
    [t |-> "app", func |-> func, left |-> left, right |-> right]

\* RAssChain.evaluate
RECURSIVE Evaluate(_)
Evaluate(self) ==
    LET right_val == IF IsChain(self.right) THEN Evaluate(self.right) ELSE self.right
    IN  CallFunc(self.func, self.left, right_val)

NoChain == [done |-> FALSE, kind |-> "chain", tokens |-> <<>>, chain |-> NoneVal,
            value |-> NoneVal]

\* a | R : RAssOperator.__ror__ starts a chain.
StartChain ==
    /\ found.tokens = <<>>
    /\ \E a \in OperandVals, f \in OperatorFuncs :
          /\ found' = [NoChain EXCEPT !.tokens = <<Val(a), OpToken(f)>>,
                                      !.chain = RAssChain(f, Val(a))]
          /\ lastOp' = Op("__ror__", NoNode, NoNode, "ok")
    /\ UNCHANGED <<fetch, data, parent, children, indexFromParent, uuidDict,
                   uuidStrDict, dupWarnings, imported, ops>>

NumOperands(tokens) == Cardinality({i \in DOMAIN tokens : tokens[i].t = "val"})

\* chain | operand
ChainOperand ==
    /\ IsChain(found.chain)
    /\ found.value.t = "None"
    /\ NumOperands(found.tokens) < MaxOperands
    /\ \E a \in OperandVals :
          /\ found' = [found EXCEPT !.tokens = Append(@, Val(a)),
                                    !.chain = OrOperand(@, Val(a))]
          /\ lastOp' = Op("__or__", NoNode, NoNode, "ok")
    /\ UNCHANGED <<fetch, data, parent, children, indexFromParent, uuidDict,
                   uuidStrDict, dupWarnings, imported, ops>>

\* chain | R
ChainOperator ==
    /\ IsChain(found.chain)
    /\ found.value.t = "None"
    /\ NumOperands(found.tokens) < MaxOperands
    /\ \E f \in OperatorFuncs :
          IF OrOperatorError(found.chain) # ""
          THEN /\ lastOp' = Op("__or__", NoNode, NoNode, OrOperatorError(found.chain))
               /\ UNCHANGED found
          ELSE /\ found' = [found EXCEPT !.tokens = Append(@, OpToken(f)),
                                         !.chain.pending_operator = f]
               /\ lastOp' = Op("__or__", NoNode, NoNode, "ok")
    /\ UNCHANGED <<fetch, data, parent, children, indexFromParent, uuidDict,
                   uuidStrDict, dupWarnings, imported, ops>>

\* chain.evaluate()
EvaluateChain ==
    /\ IsChain(found.chain)
    /\ found.value.t = "None"
    /\ found' = [found EXCEPT !.value = Evaluate(found.chain)]
    /\ lastOp' = Op("evaluate", NoNode, NoNode, "ok")
    /\ UNCHANGED <<fetch, data, parent, children, indexFromParent, uuidDict,
                   uuidStrDict, dupWarnings, imported, ops>>

InitChain ==
    /\ data = [n \in AllNodes |-> EmptyData]
    /\ parent = [n \in AllNodes |-> NoNode]
    /\ children = [n \in AllNodes |-> <<>>]
    /\ indexFromParent = [n \in AllNodes |-> IF n = Root THEN 0 ELSE NoIndex]
    /\ uuidDict = [u \in {Unique(Root)} |-> Root]
    /\ uuidStrDict = [h \in {UniqueStr(Root)} |-> Root]
    /\ lastOp = Op("init", NoNode, NoNode, "ok")
    /\ found = NoChain
    /\ dupWarnings = 0
    /\ fetch = NoFetch
    /\ imported = NoImport
    /\ ops = 0

NextChain == StartChain \/ ChainOperand \/ ChainOperator \/ EvaluateChain

SpecChain == InitChain /\ [][NextChain]_vars

\* The chain a1 |R| a2 |R| ... |R| an of one operator R: operands and
\* operator tokens alternate, and the last token is an operand.
IsChainOf(tokens, func) ==
    /\ Len(tokens) >= 3
    /\ Len(tokens) % 2 = 1
    /\ \A i \in DOMAIN tokens :
          IF i % 2 = 1 THEN tokens[i].t = "val"
          ELSE tokens[i].t = "op" /\ tokens[i].func = func

\* R(a_i, R(a_(i+1), ... R(a_(n-1), a_n) ...)) for the operands at the odd
\* positions i, i + 2, ... of the tokens.
RECURSIVE RightNested(_, _, _)
RightNested(tokens, func, i) ==
    IF i + 2 = Len(tokens)
    THEN CallFunc(func, tokens[i], tokens[i + 2])
    ELSE CallFunc(func, tokens[i], RightNested(tokens, func, i + 2))

\* C26: evaluate() of the chain a1 |R| a2 |R| ... |R| an, n >= 2, returns
\* R(a1, R(a2, ... R(a(n-1), an) ...)).
EvaluateIsRightNested ==
    \A f \in OperatorFuncs :
       (found.value.t # "None" /\ IsChainOf(found.tokens, f))
          => found.value = RightNested(found.tokens, f, 1)

-----------------------------------------------------------------------------
(* Attaching any node anywhere: nodes still attached elsewhere, the root,  *)
(* ancestors                                                                *)

\* No node is its own descendant.
Acyclic(ch) == \A n \in AllNodes : n \notin ReachFrom(ch, Range(ch[n]))

\* A recursion of Node.__eq__ that is deeper than the number of pairs of
\* nodes has met one pair twice, so it never returns: RecursionError.
EqDepth == Cardinality(AllNodes) * Cardinality(AllNodes) + 1

\* Node.__eq__(a, b) on nodes that may lie on a cycle: "True", "False" or
\* "RecursionError".
RECURSIVE NodeEqWithin(_, _, _, _)
RECURSIVE ChildrenEqWithin(_, _, _, _, _)
NodeEqWithin(S, a, b, depth) ==
    IF depth = 0 THEN "RecursionError"
    ELSE IF ~DataEq(S.data[a], S.data[b]) THEN "False"
    ELSE IF S.indexFromParent[a] # S.indexFromParent[b] THEN "False"
    ELSE IF Len(S.children[a]) # Len(S.children[b]) THEN "False"
    ELSE ChildrenEqWithin(S, a, b, 1, depth - 1)
ChildrenEqWithin(S, a, b, i, depth) ==
    IF i > Len(S.children[a]) THEN "True"
    ELSE LET r == NodeEqWithin(S, S.children[a][i], S.children[b][i], depth)
         IN IF r = "True" THEN ChildrenEqWithin(S, a, b, i + 1, depth) ELSE r

\* list.index(x) from position k (from 1) on: the item itself or the first
\* item equal to it; err is the RecursionError of a comparison.
RECURSIVE ListIndexWithin(_, _, _, _)
ListIndexWithin(S, s, x, k) ==
    IF k > Len(s) THEN [err |-> FALSE, i |-> NoIndex]
    ELSE IF s[k] = x THEN [err |-> FALSE, i |-> k - 1]
    ELSE LET r == NodeEqWithin(S, s[k], x, EqDepth)
         IN IF r = "RecursionError" THEN [err |-> TRUE, i |-> NoIndex]
            ELSE IF r = "True" THEN [err |-> FALSE, i |-> k - 1]
            ELSE ListIndexWithin(S, s, x, k + 1)

\* The outcome of CommentTree.add_node_parent(node, p) for any two nodes:
\* Node.add_child appends and sets the parent link, then looks the child up
\* by list.index, then the maps are written.
AttachOutcome(node, p) ==
    LET S1 == [Cur EXCEPT !.children[p] = Append(@, node), !.parent[node] = p]
        r == ListIndexWithin(S1, S1.children[p], node, 1)
    IN IF r.err
       THEN [S |-> S1, ud |-> uuidDict, usd |-> uuidStrDict, res |-> "RecursionError"]
       ELSE [S |-> [S1 EXCEPT !.indexFromParent[node] = r.i],
             ud |-> Put(uuidDict, Unique(node), node),
             usd |-> Put(uuidStrDict, UniqueStr(node), node),
             res |-> "ok"]

\* add_node_parent(node, p) with any node object, attached or not, the root
\* included, under any node of the tree.
Attach ==
    /\ Acyclic(children)
    /\ \E node \in AllNodes, p \in Reachable :
          Apply(AttachOutcome(node, p), "add_node_parent", node, p)

\* remove_node(node)
Detach ==
    /\ Acyclic(children)
    /\ \E node \in Reachable :
          Apply(RemoveNodeOutcome(node), "remove_node", node, NoNode)

\* replace_node(oldNode, newNode) with a new node that may be attached
\* elsewhere and is no ancestor of the place it is put in.
Substitute ==
    /\ Acyclic(children)
    /\ \E oldNode \in Reachable, newNode \in Nodes :
          /\ newNode # oldNode
          /\ parent[oldNode] # NoNode => parent[oldNode] \notin ReachFrom(children, {newNode})
          /\ Apply(ReplaceNodeOutcome(oldNode, newNode), "replace_node", oldNode, newNode)

\* The recursion of Node.localTree / Node.__iter__ from the root, on which
\* flatten, size, iteration, find_nodes and sort are built (and get_depth,
\* whose loop tests the truth of node.parent by len()): on a cycle it ends
\* in RecursionError.
WalkResult == IF \E n \in Reachable : n \in ReachFrom(children, Range(children[n]))
              THEN "RecursionError" ELSE "ok"

\* tree.flatten()
Walk ==
    /\ ops < MaxOps
    /\ ops' = ops + 1
    /\ lastOp' = Op("flatten", Root, NoNode, WalkResult)
    /\ found' = [done |-> FALSE, kind |-> "flatten",
                 out |-> IF WalkResult = "ok" THEN Flatten(children, Root) ELSE <<>>]
    /\ imported' = NoImport
    /\ UNCHANGED <<fetch, data, parent, children, indexFromParent, uuidDict,
                   uuidStrDict, dupWarnings>>

\* What tree.toCSV(path) ends with: the recursion of iterSort on a cycle,
\* the missing parent of a node it writes, the comparison of a missing
\* index by sorted().
ExportResult ==
    IF WalkResult # "ok" THEN "RecursionError"
    ELSE IF \E n \in Reachable \ {Root} : parent[n] = NoNode THEN "AttributeError"
    ELSE IF \E n \in Reachable \ {Root} : indexFromParent[n] = NoIndex THEN "TypeError"
    ELSE "ok"

\* tree.toCSV(path), the rows written being kept, and then
\* CommentTree.fromCSV(path) when the file was written.
Export ==
    /\ ops < MaxOps
    /\ ops' = ops + 1
    /\ lastOp' = Op("toCSV", Root, NoNode, ExportResult)
    /\ found' = [done |-> FALSE, kind |-> "rows",
                 out |-> IF ExportResult = "ok" THEN ToCSV(Cur) ELSE <<>>]
    /\ imported' = IF ExportResult = "ok"
                   THEN [ok |-> TRUE, tree |-> FromCSV(ToCSV(Cur))]
                   ELSE NoImport
    /\ UNCHANGED <<fetch, data, parent, children, indexFromParent, uuidDict,
                   uuidStrDict, dupWarnings>>

NextAttach == Attach \/ Detach \/ Substitute \/ Walk \/ Export

SpecAttach == Init /\ [][NextAttach]_vars

\* C27: in the rows written by toCSV the root's row is the first, and the
\* parent identifier of every other row is the identifier of a row written
\* before it, so that fromCSV finds the parent of every row it reads.
ParentRowsFirst ==
    (lastOp.op = "toCSV" /\ lastOp.res = "ok")
       => /\ found.out[1].uuid = UniqueStr(Root)
          /\ \A k \in 2..Len(found.out) :
                \E j \in 1..(k - 1) : found.out[j].uuid = found.out[k].parentUuid
          /\ imported.tree.ok

\* The number of places (a children list and a position in it) that hold n.
Places(n) ==
    Cardinality({pi \in AllNodes \X (1..(MaxOps + 1)) :
                    pi[2] <= Len(children[pi[1]]) /\ children[pi[1]][pi[2]] = n})

\* C28: every node of the tree other than the root is in exactly one
\* children list, once, and the list is that of the node its parent link
\* points to.
OnePlaceUnderParent ==
    \A n \in Reachable \ {Root} :
       /\ Places(n) = 1
       /\ parent[n] # NoNode
       /\ n \in Range(children[parent[n]])

\* C29: the child links of the tree hold no cycle, and a traversal from the
\* root returns.
TreeStaysAcyclic ==
    /\ \A n \in Reachable : n \notin ReachFrom(children, Range(children[n]))
    /\ lastOp.op = "flatten" => lastOp.res = "ok"

-----------------------------------------------------------------------------
(* Identifiers and their hex strings                                       *)

\* CommentTree.__getitem__(key) of the imported tree I for a UUID or a
\* string key: the node, or NoNode for KeyError.
ImportedItem(I, key, isStr) ==
    IF isStr
    THEN IF key \in DOMAIN I.uuidStrDict THEN I.uuidStrDict[key] ELSE NoNode
    ELSE IF key \in DOMAIN I.uuidDict THEN I.uuidDict[key] ELSE NoNode

\* C30: the string identifier of every node is the hex form of its UUID;
\* after fromCSV every node made, the root included, is found by the UUID
\* read from the file and by the hex string of that UUID, and the
\* identifier exported again for it is the one read.
HexNamesEveryNode ==
    /\ \A h \in DOMAIN uuidStrDict : h = Hex(Unique(uuidStrDict[h]))
    /\ (imported.ok /\ imported.tree.ok)
          => \A u \in imported.tree.made :
                /\ imported.tree.uniqueStr[u] = Hex(u)
                /\ ImportedItem(imported.tree, u, FALSE) = u
                /\ ImportedItem(imported.tree, Hex(u), TRUE) = u
====
